---- MODULE Spec2Model ----
(***************************************************************************)
(* The Q-SYS QRC client of node-red-qsys: class NodeHandler of the         *)
(* qsys-config node (connection lifecycle, Logon handshake, request /      *)
(* response correlation over the node's "package" event, status fan-out)   *)
(* and the NUL-delimited frame decoder NodeHandler.receive; and the input  *)
(* handler of the qsys-mixer node.                                         *)
(*                                                                         *)
(* Spec    : the connection / request state machine.  Frames are handed to *)
(*           the handlers already decoded, one decoded object per step;    *)
(*           a chunk of several frames is a run of SocketData steps that   *)
(*           no promise continuation (microtask) interrupts.               *)
(* SpecFlow: Spec from the state in which the dependent nodes have         *)
(*           registered; SpecFlowFair adds the event loop's scheduling.    *)
(* SpecObserved : SpecFlow with status callbacks that call send.            *)
(* SpecDecode   : SpecFlow on a link that delivers malformed frames.       *)
(* SpecSend: send with every kind of input.                                *)
(* SpecMixer    : the mixer node's input handler (validate, send, done).   *)
(* SpecRegistry : the status callback registry on its own.                 *)
(* SpecRx  : the byte level decoder, fed a frame stream in chunks;         *)
(*           SpecRxAny feeds it streams that hold malformed frames,        *)
(*           SpecRxEmpty streams that hold empty frames.                   *)
(***************************************************************************)
EXTENDS Integers, Sequences, FiniteSets, TLC

\* ------------------------------------------------------------------ bounds
MaxSockets == 2        \* connect() calls in one behaviour
MaxReq == 2            \* send calls made by the dependent nodes
MaxFrames == 2         \* frames in a byte stream (SpecRx)
MaxChanges == 2        \* items in the change list of a ChangeGroup.Poll frame
MaxCallbacks == 7      \* distinct closures passed to registerStatusCallback

\* --------------------------------------------------------------- constants
NullId == -1           \* QsysResponse.id: number | null  (null, or no id)

Sockets == 1..MaxSockets
Requests == 1..MaxReq
Observers == {"n1", "n2"}          \* node ids of the dependent nodes
Callbacks == 1..MaxCallbacks       \* the closures they pass as status callback
OwnCallback == 1                   \* the closure a node's constructor creates
DateNow == {1000}                  \* the millisecond Date.now() returns (mixer ids)
ErrCodes == {7, 99}                \* error codes the device answers with
Messages == {"Unknown component"}  \* error.message of an error response
Items == [i \in 1..MaxChanges |-> <<"gain", i>>]   \* the changed controls, by Name
MaxLastId == MaxSockets + MaxReq   \* reserveId() is called at most this often
RespIds == (0..(MaxLastId - 1)) \cup DateNow \cup {NullId}

NoError == [kind |-> "none", code |-> 0, message |-> ""]
QSysApiError(code, message) == [kind |-> "QSysApiError", code |-> code, message |-> message]
RequestTimeoutError == [kind |-> "Error", code |-> 0, message |-> "did not respond within 10 seconds"]
ConnectFailedError == [kind |-> "Error", code |-> 0, message |-> "Connecting to socket failed"]
ConnectTimeoutError == [kind |-> "Error", code |-> 0, message |-> "Connecting to socket timed out"]

\* QSysApiError.hint
KnownCodes == {-32700, -32600, -32601, -32602, -32603, -32604, 2, 3, 4, 5, 6, 7, 8, 9, 10}

hintMutNoDefault(code) == "Unknown component name"

hint(code) ==
  CASE code = -32700 -> "Parse error. Invalid JSON was received by the server."
    [] code = -32600 -> "Invalid request. The JSON sent is not a valid Request object."
    [] code = -32601 -> "Method not found."
    [] code = -32602 -> "Invalid params."
    [] code = -32603 -> "Server error."
    [] code = -32604 -> "Core is on Standby. This code is returned when a QRC command is received while the Core is not the active Core in a redundant Core configuration."
    [] code = 2 -> "Invalid Page Request ID"
    [] code = 3 -> "Bad Page Request - could not create the requested Page Request"
    [] code = 4 -> "Missing file"
    [] code = 5 -> "Change Groups exhausted"
    [] code = 6 -> "Unknown change croup"
    [] code = 7 -> "Unknown component name"
    [] code = 8 -> "Unknown control"
    [] code = 9 -> "Illegal mixer channel index"
    [] code = 10 -> "Logon required"
    [] OTHER -> "Unknown Error"

VARIABLES
  authentication,    \* config.authentication
  socket,            \* this.socket: 0 (undefined) or a socket
  connectionPromise, \* this.connectionPromise: 0 (undefined) or the attempt (its socket)
  promise,           \* state of the promise each attempt created
  sockState,         \* net.Socket life cycle of each socket connect() returned
  nSockets,          \* number of connect() calls so far
  lastId,            \* the module level counter behind reserveId()
  req,               \* the send calls of the dependent nodes
  logon,             \* the Logon send of each socket's "ready" handler
  written,           \* frames written to each socket, in order
  statusCallbacks,   \* this.statusCallbacks, in insertion order
  lastBroadcast,     \* the last updateStatus call and the observers it invoked
  statusCalls,       \* per attempt: updateStatus("Connected") / ("Error") calls made
  noOpIntervalId,    \* this.noOpIntervalId is set
  intervalRunning,   \* the setInterval timer is running
  nodeClosed,        \* the owner's "close" event has been emitted
  micro,             \* promise continuations queued (microtasks)
  inChunk,           \* socket whose "data" handler may still be running its loop
  events,            \* node events ("ready", "rx", "package") the last handler emitted,
                     \* and its node.error log call
  stream, rest, emitted, errors   \* SpecRx: bytes to deliver, decoder output

vars == <<authentication, socket, connectionPromise, promise, sockState, nSockets,
          lastId, req, logon, written, statusCallbacks, lastBroadcast, statusCalls,
          noOpIntervalId, intervalRunning, nodeClosed, micro, inChunk, events,
          stream, rest, emitted, errors>>

connVars == <<socket, connectionPromise, promise, sockState, nSockets>>
reqVars == <<lastId, req, logon, written>>
statusVars == <<statusCallbacks, lastBroadcast, statusCalls>>
ownerVars == <<noOpIntervalId, intervalRunning, nodeClosed>>
rxVars == <<stream, rest, emitted, errors>>

\* ------------------------------------------------------------ send inputs
Undefined == "undefined"           \* a property the caller did not set
ParamsZero == "0"                  \* the literal 0 that replaces absent params
ParamsObjects == {"{}"}            \* params objects the callers pass

\* Partial<QsysMessage> as send accepts it.
Inputs ==
  [id : {NullId, 0} \cup DateNow, params : {Undefined} \cup ParamsObjects,
   jsonrpc : {Undefined, "1.0"}]

\* What the nodes of this repository pass: getComponentList (no id, no
\* params) and the mixer node (id Date.now(), a params object).
FlowInputs ==
  {[id |-> NullId, params |-> Undefined, jsonrpc |-> Undefined]}
    \cup {[id |-> d, params |-> o, jsonrpc |-> Undefined] : d \in DateNow, o \in ParamsObjects}

\* if (input.params === undefined) input.params = 0
paramsOf(input) == IF input.params = Undefined THEN ParamsZero ELSE input.params

idOfMutFalsy(input, next) == IF input.id = NullId \/ input.id = 0 THEN next ELSE input.id

\* if (input.id === undefined) input.id = reserveId()   (next: the id it returns)
idOf(input, next) == IF input.id = NullId THEN next ELSE input.id

\* The message handed to encapsulate and socket.write; send has set
\* input.jsonrpc = "2.0", whatever the caller put there.
Message(method, id, params) ==
  [jsonrpc |-> "2.0", method |-> method, id |-> id, params |-> params]

\* ------------------------------------------------------------ send records
NoRequest ==
  [phase |-> "new", id |-> NullId, params |-> Undefined, att |-> 0, sock |-> 0,
   listener |-> FALSE, timer |-> FALSE, err |-> NoError]

\* send() after the transport is known: the frame is written, the "package"
\* listener is registered and the 10 s timer is started.
Registered(id, params, att, s) ==
  [phase |-> "pending", id |-> id, params |-> params, att |-> att, sock |-> s,
   listener |-> TRUE, timer |-> TRUE, err |-> NoError]

Awaiting(id, params, att) ==
  [phase |-> "awaiting", id |-> id, params |-> params, att |-> att, sock |-> 0,
   listener |-> FALSE, timer |-> FALSE, err |-> NoError]

\* The "package" listener of one send call, run on decoded object f.
ListenerMutAnyId(r, f) ==
  IF r.listener
  THEN [r EXCEPT !.listener = FALSE, !.timer = FALSE,
                 !.phase = IF r.phase = "pending"
                           THEN (IF f.error # <<>> THEN "apiError" ELSE "resolved")
                           ELSE @,
                 !.err = IF r.phase = "pending" /\ f.error # <<>>
                         THEN QSysApiError(f.error[1].code, f.error[1].message) ELSE @]
  ELSE r

Listener(r, f) ==
  IF r.listener /\ f.id = r.id
  THEN [r EXCEPT !.listener = FALSE, !.timer = FALSE,
                 !.phase = IF r.phase = "pending"
                           THEN (IF f.error # <<>> THEN "apiError" ELSE "resolved")
                           ELSE @,
                 !.err = IF r.phase = "pending" /\ f.error # <<>>
                         THEN QSysApiError(f.error[1].code, f.error[1].message) ELSE @]
  ELSE r

\* The timer callback of one send call: reject, nothing else.
TimerFired(r) ==
  [r EXCEPT !.timer = FALSE,
            !.phase = IF r.phase = "pending" THEN "timedout" ELSE @,
            !.err = IF r.phase = "pending" THEN RequestTimeoutError ELSE @]

closeSocketMutNoDestroy(ss, s) == ss

\* socket?.destroy()
closeSocket(ss, s) ==
  IF s # 0 /\ ss[s] \in {"connecting", "open"}
  THEN [ss EXCEPT ![s] = "destroyed"]
  ELSE ss

\* A promise settles once; later resolve / reject calls are no-ops.
Settle(p, s, how, e) ==
  IF p[s].state = "pending" THEN [p EXCEPT ![s] = [state |-> how, err |-> e]] ELSE p

updateStatusMutReversed(status, handle, error) ==
  lastBroadcast' = [status |-> status, socket |-> handle, error |-> error,
                    to |-> [i \in 1..Len(statusCallbacks) |->
                              statusCallbacks[Len(statusCallbacks) + 1 - i]]]

\* updateStatus(status, error): every registered observer, in Map order,
\* is called with (this.socket, status, error).
updateStatus(status, handle, error) ==
  lastBroadcast' = [status |-> status, socket |-> handle, error |-> error,
                    to |-> statusCallbacks]

\* -------------------------------------------------------- decoded objects
ResponseErrors == {<<[code |-> c, message |-> m]>> : c \in ErrCodes, m \in Messages}

ResponseFrames ==
  {[id |-> i, method |-> "", State |-> "", Changes |-> <<>>, error |-> e] :
     i \in RespIds, e \in {<<>>} \cup ResponseErrors}

EngineStatusFrames ==
  {[id |-> NullId, method |-> "EngineStatus", State |-> st, Changes |-> <<>>, error |-> <<>>] :
     st \in {"Idle", "Active", "Standby"}}

\* result.Changes of a ChangeGroup.Poll frame: a list of changed controls.
ChangeLists == {SubSeq(Items, 1, n) : n \in 0..MaxChanges}

\* Like EngineStatus, the frame is a notification: it answers no request.
ChangeGroupPollFrames ==
  {[id |-> NullId, method |-> "ChangeGroup.Poll", State |-> "", Changes |-> c, error |-> <<>>] :
     c \in ChangeLists}

Frames == ResponseFrames \cup EngineStatusFrames \cup ChangeGroupPollFrames

\* ------------------------------------------------- receive: notifications
Event(name, arg) == [event |-> name, arg |-> arg]

ReadyEventsMutAnyState(f) ==
  IF f.method = "EngineStatus" THEN <<Event("ready", <<>>)>> ELSE <<>>

\* case "EngineStatus": State "Active" emits "ready".
ReadyEvents(f) ==
  IF f.method = "EngineStatus" /\ f.State = "Active" THEN <<Event("ready", <<>>)>> ELSE <<>>

\* case "EngineStatus": State "Standby" calls closeSocket(this.socket).
StandbyCloses(f) == f.method = "EngineStatus" /\ f.State = "Standby"

ChangeEventsMutReversed(f) ==
  IF f.method = "ChangeGroup.Poll"
  THEN [i \in 1..Len(f.Changes) |-> Event("rx", <<f.Changes[Len(f.Changes) + 1 - i]>>)]
  ELSE <<>>

\* case "ChangeGroup.Poll": emit("rx", changes[i]) for i = 0 .. length - 1.
ChangeEvents(f) ==
  IF f.method = "ChangeGroup.Poll"
  THEN [i \in 1..Len(f.Changes) |-> Event("rx", <<f.Changes[i]>>)]
  ELSE <<>>

\* The events one decoded object makes receive emit, in order; "package"
\* carries the object itself.
Emits(f) == ReadyEvents(f) \o ChangeEvents(f) \o <<Event("package", <<>>)>>

Task(kind, s) == [task |-> kind, sock |-> s]

\* The Logon sends that object f settles: each queues its then / catch.
LogonTasks(lg, f) ==
  LET hit == {s \in Sockets : lg[s].phase = "pending" /\ Listener(lg[s], f).phase # "pending"}
      RECURSIVE InOrder(_)
      InOrder(k) == IF k > MaxSockets THEN <<>>
                    ELSE (IF k \in hit THEN <<Task("logon", k)>> ELSE <<>>) \o InOrder(k + 1)
  IN InOrder(1)

\* ------------------------------------------------------------------- Init
Init ==
  /\ authentication \in BOOLEAN
  /\ socket = 0
  /\ connectionPromise = 0
  /\ promise = [s \in Sockets |-> [state |-> "none", err |-> NoError]]
  /\ sockState = [s \in Sockets |-> "unused"]
  /\ nSockets = 0
  /\ lastId = 0
  /\ req = [r \in Requests |-> NoRequest]
  /\ logon = [s \in Sockets |-> NoRequest]
  /\ written = [s \in Sockets |-> <<>>]
  /\ statusCallbacks = <<>>
  /\ lastBroadcast = [status |-> "", socket |-> 0, error |-> NoError, to |-> <<>>]
  /\ statusCalls = [s \in Sockets |-> [Connected |-> 0, Error |-> 0]]
  /\ noOpIntervalId = FALSE
  /\ intervalRunning = FALSE
  /\ nodeClosed = FALSE
  /\ micro = <<>>
  /\ inChunk = 0
  /\ events = <<>>
  /\ stream = <<>>
  /\ rest = <<>>
  /\ emitted = <<>>
  /\ errors = 0

\* --------------------------------------------- initSocket: settle helpers
handleResolveMutBroadcastFirst(s, ss, mq) ==
  /\ sockState' = (IF socket # 0 THEN closeSocket(ss, socket) ELSE ss)
  /\ socket' = s
  /\ connectionPromise' = 0
  /\ updateStatus("Connected", socket, NoError)
  /\ statusCalls' = [statusCalls EXCEPT ![s].Connected = @ + 1]
  /\ promise' = Settle(promise, s, "resolved", NoError)
  /\ micro' = IF promise[s].state = "pending" THEN Append(mq, Task("resume", s)) ELSE mq

\* handleResolve(socket), run with socket states ss and microtask queue mq.
handleResolve(s, ss, mq) ==
  /\ sockState' = (IF socket # 0 THEN closeSocket(ss, socket) ELSE ss)
  /\ socket' = s
  /\ connectionPromise' = 0
  /\ updateStatus("Connected", s, NoError)
  /\ statusCalls' = [statusCalls EXCEPT ![s].Connected = @ + 1]
  /\ promise' = Settle(promise, s, "resolved", NoError)
  /\ micro' = IF promise[s].state = "pending" THEN Append(mq, Task("resume", s)) ELSE mq

handleRejectMutKeepsRecord(s, e, ss, mq) ==
  /\ sockState' = ss
  /\ socket' = socket
  /\ connectionPromise' = connectionPromise
  /\ updateStatus("Error", socket, e)
  /\ statusCalls' = [statusCalls EXCEPT ![s].Error = @ + 1]
  /\ promise' = Settle(promise, s, "rejected", e)
  /\ micro' = IF promise[s].state = "pending" THEN Append(mq, Task("resume", s)) ELSE mq

\* handleReject(error)
handleReject(s, e, ss, mq) ==
  /\ sockState' = ss
  /\ socket' = socket
  /\ connectionPromise' = 0
  /\ updateStatus("Error", socket, e)
  /\ statusCalls' = [statusCalls EXCEPT ![s].Error = @ + 1]
  /\ promise' = Settle(promise, s, "rejected", e)
  /\ micro' = IF promise[s].state = "pending" THEN Append(mq, Task("resume", s)) ELSE mq

\* ------------------------------------------------------------------- send
\* send(input): input.id is the caller's (Date.now() in the mixer node) or,
\* when absent (NullId), reserveId().
\* With this.socket set the frame is written at once; otherwise the call
\* awaits getSocket() -> initSocket(), which opens a transport only when no
\* connectionPromise exists.
NextRequest == CHOOSE r \in Requests : req[r].phase = "new" /\ \A q \in 1..(r - 1) : req[q].phase # "new"

NeedsConnectMutNoGuard == TRUE

\* initSocket: if (this.connectionPromise) return this.connectionPromise
NeedsConnect == connectionPromise = 0

SendCall(input) ==
  /\ micro = <<>>
  /\ ~nodeClosed
  /\ \E r \in Requests : req[r].phase = "new"
  /\ LET r == NextRequest
         id == idOf(input, lastId)
         params == paramsOf(input)
     IN /\ lastId' = IF input.id = NullId THEN lastId + 1 ELSE lastId
        /\ IF socket # 0
           THEN /\ req' = [req EXCEPT ![r] = Registered(id, params, 0, socket)]
                /\ written' = [written EXCEPT ![socket] = Append(@, Message("call", id, params))]
                /\ UNCHANGED <<connVars, noOpIntervalId, intervalRunning>>
           ELSE IF ~NeedsConnect
           THEN /\ req' = [req EXCEPT ![r] = Awaiting(id, params, connectionPromise)]
                /\ UNCHANGED <<connVars, written, noOpIntervalId, intervalRunning>>
           ELSE /\ nSockets < MaxSockets
                /\ LET s == nSockets + 1
                   IN /\ nSockets' = s
                      /\ sockState' = [sockState EXCEPT ![s] = "connecting"]
                      /\ promise' = [promise EXCEPT ![s] = [state |-> "pending", err |-> NoError]]
                      /\ connectionPromise' = s
                      /\ req' = [req EXCEPT ![r] = Awaiting(id, params, s)]
                /\ noOpIntervalId' = TRUE
                /\ intervalRunning' = (IF noOpIntervalId THEN intervalRunning ELSE TRUE)
                /\ UNCHANGED <<socket, written>>
  /\ inChunk' = 0
  /\ UNCHANGED <<authentication, logon, statusVars, nodeClosed, micro, rxVars>>

\* A send call made by a node's handler that emits and logs nothing.
Send(input) ==
  /\ SendCall(input)
  /\ events' = <<>>

\* ------------------------------------------------------------ mixer node
\* msg.payload as the input handler sees it: a value and its typeof.
\* Strings are sequences of characters.
Num(n) == [type |-> "number", num |-> n, nan |-> FALSE, str |-> <<>>, bool |-> FALSE]
NaN == [type |-> "number", num |-> 0, nan |-> TRUE, str |-> <<>>, bool |-> FALSE]
Str(s) == [type |-> "string", num |-> 0, nan |-> FALSE, str |-> s, bool |-> FALSE]
Bool(b) == [type |-> "boolean", num |-> 0, nan |-> FALSE, str |-> <<>>, bool |-> b]
UndefinedPayload == [type |-> "undefined", num |-> 0, nan |-> FALSE, str |-> <<>>, bool |-> FALSE]
ObjectPayload == [type |-> "object", num |-> 0, nan |-> FALSE, str |-> <<>>, bool |-> FALSE]

Digits == {"0", "1", "2", "3", "4", "5", "6", "7", "8", "9"}
DigitValue(c) ==
  CASE c = "0" -> 0 [] c = "1" -> 1 [] c = "2" -> 2 [] c = "3" -> 3 [] c = "4" -> 4
    [] c = "5" -> 5 [] c = "6" -> 6 [] c = "7" -> 7 [] c = "8" -> 8 [] c = "9" -> 9

\* The digits at the head of s, and their value read after acc.
RECURSIVE LeadingDigits(_)
LeadingDigits(s) ==
  IF s # <<>> /\ Head(s) \in Digits THEN <<Head(s)>> \o LeadingDigits(Tail(s)) ELSE <<>>

RECURSIVE DecimalValue(_, _)
DecimalValue(ds, acc) ==
  IF ds = <<>> THEN acc ELSE DecimalValue(Tail(ds), 10 * acc + DigitValue(Head(ds)))

RECURSIVE TrimStart(_)
TrimStart(s) == IF s # <<>> /\ Head(s) = " " THEN TrimStart(Tail(s)) ELSE s

\* parseInt(s, 10): leading white space, an optional sign, then as many
\* digits as there are; NaN when there is none.
parseInt(s) ==
  LET t == TrimStart(s)
      signed == t # <<>> /\ Head(t) \in {"-", "+"}
      ds == LeadingDigits(IF signed THEN Tail(t) ELSE t)
  IN IF ds = <<>> THEN NaN
     ELSE Num((IF signed /\ Head(t) = "-" THEN -1 ELSE 1) * DecimalValue(ds, 0))

\* isNaN(x) for a payload that is not a string: Number(x) is NaN.
isNaN(x) ==
  CASE x.type = "number" -> x.nan
    [] x.type = "boolean" -> FALSE
    [] x.type = "undefined" -> TRUE
    [] x.type = "object" -> TRUE

NumericMethods ==
  {"SetCrossPointGain", "SetCrossPointDelay", "SetInputGain", "SetOutputGain", "SetCueGain"}
BooleanMethods ==
  {"SetCrossPointMute", "SetCrossPointSolo", "SetInputMute", "SetInputSolo",
   "SetOutputMute", "SetCueMute", "SetInputCueEnable", "SetInputCueAfl"}
Methods == NumericMethods \cup BooleanMethods \cup {"SetGain"}

Payloads ==
  {Num(0), Num(5), Num(-6), NaN, Bool(TRUE), Bool(FALSE), UndefinedPayload, ObjectPayload}
    \cup {Str(s) : s \in {<<"1", "2">>, <<"-", "6">>, <<" ", "7">>, <<"3", "d", "B">>,
                          <<"a", "b", "c">>, <<"t", "r", "u", "e">>, <<>>}}

\* requireNumericValue: a string payload is replaced by parseInt(payload, 10).
NumericValue(payload) == IF payload.type = "string" THEN parseInt(payload.str) ELSE payload

\* validate(method, payload): the error it throws, <<>> when it returns.
validate(method, payload) ==
  IF method \in NumericMethods
  THEN IF ~isNaN(NumericValue(payload))
       THEN <<"Value", NumericValue(payload), "is not supported.">> ELSE <<>>
  ELSE IF method \in BooleanMethods
  THEN IF payload.type # "boolean" THEN <<"Value", payload, "is not supported.">> ELSE <<>>
  ELSE <<"Method", method, "is not supported.">>

\* The "input" handler of the mixer node: validate, then one
\* nodeHandler.send of Mixer.<method> with id Date.now(), then done(); a
\* validation error is logged with node.warn and done() is called.
MixerInput(method, payload) ==
  /\ micro = <<>>
  /\ ~nodeClosed
  /\ IF validate(method, payload) = <<>>
     THEN /\ \E d \in DateNow, o \in ParamsObjects :
               SendCall([id |-> d, params |-> o, jsonrpc |-> Undefined])
          /\ events' = <<Event("send", <<"Mixer", method>>), Event("done", <<>>)>>
     ELSE /\ events' = <<Event("node.warn", validate(method, payload)), Event("done", <<>>)>>
          /\ inChunk' = 0
          /\ UNCHANGED <<authentication, connVars, reqVars, statusVars, ownerVars, micro, rxVars>>

\* ------------------------------------------------------- transport events
\* "connect" followed by "ready" (net emits both in one turn).
ResolveOnConnectMutAlways == TRUE

ResolveOnConnectMutNever == FALSE

\* connect handler: if (!this.config.authentication) handleResolve(socket)
ResolveOnConnect == ~authentication

\* ready handler: if (this.config.authentication) send({method: "Logon"}, socket)
LogonOnReady == authentication

SocketConnect(s) ==
  /\ micro = <<>>
  /\ sockState[s] = "connecting"
  /\ IF ResolveOnConnect
     THEN handleResolve(s, [sockState EXCEPT ![s] = "open"], micro)
     ELSE /\ sockState' = [sockState EXCEPT ![s] = "open"]
          /\ UNCHANGED <<socket, connectionPromise, promise, lastBroadcast, statusCalls, micro>>
  /\ IF LogonOnReady
     THEN /\ logon' = [logon EXCEPT ![s] = Registered(lastId, "{User,Password}", 0, s)]
          /\ lastId' = lastId + 1
          /\ written' = [written EXCEPT ![s] = Append(@, Message("Logon", lastId, "{User,Password}"))]
     ELSE UNCHANGED <<logon, lastId, written>>
  /\ inChunk' = 0
  /\ events' = <<>>
  /\ UNCHANGED <<authentication, nSockets, req, statusCallbacks, ownerVars, rxVars>>

TeardownHandlerMutKeepsRef(s) ==
  /\ sockState' = closeSocket(sockState, s)
  /\ socket' = socket
  /\ UNCHANGED <<connectionPromise, promise, micro>>

TeardownHandlerMutClearsAny(s) ==
  /\ sockState' = closeSocket(sockState, s)
  /\ socket' = 0
  /\ UNCHANGED <<connectionPromise, promise, micro>>

\* The "close", "end" and "timeout" handlers share one body.
TeardownHandler(s) ==
  /\ sockState' = closeSocket(sockState, s)
  /\ socket' = IF socket = s THEN 0 ELSE socket
  /\ UNCHANGED <<connectionPromise, promise, micro>>

SocketClose(s) ==
  /\ micro = <<>>
  /\ sockState[s] = "destroyed"
  /\ sockState' = [sockState EXCEPT ![s] = "closed"]
  /\ socket' = IF socket = s THEN 0 ELSE socket
  /\ inChunk' = 0
  /\ events' = <<>>
  /\ UNCHANGED <<authentication, connectionPromise, promise, nSockets, reqVars,
                 statusVars, ownerVars, micro, rxVars>>

SocketEnd(s) ==
  /\ micro = <<>>
  /\ sockState[s] = "open"
  /\ TeardownHandler(s)
  /\ inChunk' = 0
  /\ events' = <<>>
  /\ UNCHANGED <<authentication, nSockets, reqVars, statusVars, ownerVars, rxVars>>

SocketTimeout(s) ==
  /\ micro = <<>>
  /\ sockState[s] \in {"connecting", "open"}
  /\ TeardownHandler(s)
  /\ inChunk' = 0
  /\ events' = <<>>
  /\ UNCHANGED <<authentication, nSockets, reqVars, statusVars, ownerVars, rxVars>>

\* "error": net has destroyed the socket when it emits it; the handler logs
\* and, for errno -4078, calls closeSocket(socket) on top.
SocketError(s) ==
  /\ micro = <<>>
  /\ sockState[s] \in {"connecting", "open"}
  /\ sockState' = closeSocket(sockState, s)
  /\ inChunk' = 0
  /\ events' = <<>>
  /\ UNCHANGED <<authentication, socket, connectionPromise, promise, nSockets, reqVars,
                 statusVars, ownerVars, micro, rxVars>>

ConnectionAttemptFailed(s) ==
  /\ micro = <<>>
  /\ sockState[s] = "connecting"
  /\ handleReject(s, ConnectFailedError, closeSocket(sockState, s), micro)
  /\ inChunk' = 0
  /\ events' = <<>>
  /\ UNCHANGED <<authentication, nSockets, reqVars, statusCallbacks, ownerVars, rxVars>>

ConnectionAttemptTimeout(s) ==
  /\ micro = <<>>
  /\ sockState[s] = "connecting"
  /\ handleReject(s, ConnectTimeoutError, closeSocket(sockState, s), micro)
  /\ inChunk' = 0
  /\ events' = <<>>
  /\ UNCHANGED <<authentication, nSockets, reqVars, statusCallbacks, ownerVars, rxVars>>

\* ---------------------------------------------------------------- receive
\* One decoded object of a "data" chunk of socket s: the notification
\* switch, then emit("package", obj) to every registered listener.
SocketData(s, f) ==
  /\ \/ micro = <<>> /\ sockState[s] = "open"
     \/ inChunk = s
  /\ events' = Emits(f)
  /\ sockState' = IF StandbyCloses(f) THEN closeSocket(sockState, socket) ELSE sockState
  /\ req' = [r \in Requests |-> Listener(req[r], f)]
  /\ logon' = [k \in Sockets |-> Listener(logon[k], f)]
  /\ micro' = micro \o LogonTasks(logon, f)
  /\ inChunk' = IF micro' # <<>> \/ sockState'[s] # "open" THEN s ELSE 0
  /\ UNCHANGED <<authentication, socket, connectionPromise, promise, nSockets, lastId,
                 written, statusVars, ownerVars, rxVars>>

\* ----------------------------------------------------------------- timers
RequestTimeout(r) ==
  /\ micro = <<>>
  /\ req[r].timer
  /\ req' = [req EXCEPT ![r] = TimerFired(@)]
  /\ inChunk' = 0
  /\ events' = <<>>
  /\ UNCHANGED <<authentication, connVars, lastId, logon, written, statusVars,
                 ownerVars, micro, rxVars>>

LogonTimeout(s) ==
  /\ micro = <<>>
  /\ logon[s].timer
  /\ logon' = [logon EXCEPT ![s] = TimerFired(@)]
  /\ micro' = <<Task("logon", s)>>
  /\ inChunk' = 0
  /\ events' = <<>>
  /\ UNCHANGED <<authentication, connVars, lastId, req, written, statusVars,
                 ownerVars, rxVars>>

\* ------------------------------------------------------------- microtasks
LogonSettledMutAlwaysResolve(s) ==
  /\ handleResolve(s, sockState, Tail(micro))
  /\ UNCHANGED <<req, written>>

\* then / catch of the Logon send in the "ready" handler.
LogonSettled(s) ==
  /\ IF logon[s].phase = "resolved"
     THEN handleResolve(s, sockState, Tail(micro))
     ELSE handleReject(s, logon[s].err, sockState, Tail(micro))
  /\ UNCHANGED <<req, written>>

ResumedMutRegisters(r, s) ==
  IF r.phase = "awaiting" /\ r.att = s THEN Registered(r.id, r.params, s, s) ELSE r

\* send() resumes after `await this.getSocket()`.
Resumed(r, s) ==
  IF r.phase = "awaiting" /\ r.att = s
  THEN IF promise[s].state = "resolved"
       THEN Registered(r.id, r.params, s, s)
       ELSE [r EXCEPT !.phase = "connError", !.err = promise[s].err]
  ELSE r

ResumeWrites(s) ==
  LET RECURSIVE From(_)
      From(k) == IF k > MaxReq THEN <<>>
                 ELSE (IF req[k].phase = "awaiting" /\ req[k].att = s
                       THEN <<Message("call", req[k].id, req[k].params)>> ELSE <<>>) \o From(k + 1)
  IN From(1)

SendResumed(s) ==
  /\ req' = [r \in Requests |-> Resumed(req[r], s)]
  /\ written' = IF promise[s].state = "resolved"
                THEN [written EXCEPT ![s] = @ \o ResumeWrites(s)]
                ELSE written
  /\ micro' = Tail(micro)
  /\ UNCHANGED <<socket, connectionPromise, promise, sockState, statusVars>>

RunMicrotask ==
  /\ micro # <<>>
  /\ IF micro[1].task = "logon"
     THEN LogonSettled(micro[1].sock) /\ UNCHANGED statusCallbacks
     ELSE SendResumed(micro[1].sock)
  /\ inChunk' = 0
  /\ events' = <<>>
  /\ UNCHANGED <<authentication, nSockets, lastId, logon, ownerVars, rxVars>>

\* --------------------------------------------- observers that call send
\* A status callback is any closure; updateStatus calls it synchronously,
\* inside handleResolve, after this.socket was set.  A callback that calls
\* send(input) on "Connected" finds forcedSocket = this.socket = s: its frame
\* is written and its listener registered before handleResolve returns.
SendInCallback(input, s) ==
  /\ statusCallbacks # <<>>
  /\ ~nodeClosed
  /\ \E r \in Requests : req[r].phase = "new"
  /\ LET r == NextRequest
         id == idOf(input, lastId)
         params == paramsOf(input)
     IN /\ lastId' = IF input.id = NullId THEN lastId + 1 ELSE lastId
        /\ req' = [req EXCEPT ![r] = Registered(id, params, 0, s)]
        /\ written' = [written EXCEPT ![s] = Append(@, Message("call", id, params))]

\* "connect" without authentication, observed by such a callback.
SocketConnectObserved(s, input) ==
  /\ micro = <<>>
  /\ sockState[s] = "connecting"
  /\ ResolveOnConnect
  /\ handleResolve(s, [sockState EXCEPT ![s] = "open"], micro)
  /\ SendInCallback(input, s)
  /\ inChunk' = 0
  /\ events' = <<>>
  /\ UNCHANGED <<authentication, nSockets, logon, statusCallbacks, ownerVars, rxVars>>

\* The then of a successful Logon, observed by such a callback.
LogonResolvedObserved(s, input) ==
  /\ micro # <<>>
  /\ micro[1] = Task("logon", s)
  /\ logon[s].phase = "resolved"
  /\ handleResolve(s, sockState, Tail(micro))
  /\ SendInCallback(input, s)
  /\ inChunk' = 0
  /\ events' = <<>>
  /\ UNCHANGED <<authentication, nSockets, logon, statusCallbacks, ownerVars, rxVars>>

\* ------------------------------------------------------------------ owner
NodeCloseMutCurrentOnly ==
  /\ micro = <<>>
  /\ ~nodeClosed
  /\ nodeClosed' = TRUE
  /\ intervalRunning' = (IF noOpIntervalId THEN FALSE ELSE intervalRunning)
  /\ sockState' = closeSocket(sockState, socket)
  /\ inChunk' = 0
  /\ events' = <<>>
  /\ UNCHANGED <<authentication, socket, connectionPromise, promise, nSockets, reqVars,
                 statusVars, noOpIntervalId, micro, rxVars>>

\* node "close": the constructor's handler clears the interval, and the
\* handler each initSocket registered destroys that call's socket.
NodeClose ==
  /\ micro = <<>>
  /\ ~nodeClosed
  /\ nodeClosed' = TRUE
  /\ intervalRunning' = (IF noOpIntervalId THEN FALSE ELSE intervalRunning)
  /\ sockState' = [s \in Sockets |-> closeSocket(sockState, s)[s]]
  /\ inChunk' = 0
  /\ events' = <<>>
  /\ UNCHANGED <<authentication, socket, connectionPromise, promise, nSockets, reqVars,
                 statusVars, noOpIntervalId, micro, rxVars>>

\* --------------------------------------------------------- status registry
\* this.statusCallbacks is a Map nodeId -> callback: a list of entries in
\* insertion order.
Entry(o, cb) == [nodeId |-> o, callback |-> cb]

Registry(cbs) == {cbs[i].nodeId : i \in 1..Len(cbs)}

Without(cbs, o) ==
  LET RECURSIVE Drop(_)
      Drop(q) == IF q = <<>> THEN <<>>
                 ELSE (IF Head(q).nodeId = o THEN <<>> ELSE <<Head(q)>>) \o Drop(Tail(q))
  IN Drop(cbs)

registerStatusCallbackMutOverwrites(o, cb) ==
  /\ micro = <<>>
  /\ nSockets = 0
  /\ statusCallbacks' =
       IF o \in Registry(statusCallbacks)
       THEN [i \in 1..Len(statusCallbacks) |->
               IF statusCallbacks[i].nodeId = o THEN Entry(o, cb) ELSE statusCallbacks[i]]
       ELSE Append(statusCallbacks, Entry(o, cb))
  /\ inChunk' = 0
  /\ events' = <<>>
  /\ UNCHANGED <<authentication, connVars, reqVars, lastBroadcast, statusCalls,
                 ownerVars, micro, rxVars>>

\* The dependent nodes register in their constructors, when the flow starts.
registerStatusCallback(o, cb) ==
  /\ micro = <<>>
  /\ nSockets = 0
  /\ statusCallbacks' = IF o \in Registry(statusCallbacks)
                        THEN statusCallbacks ELSE Append(statusCallbacks, Entry(o, cb))
  /\ inChunk' = 0
  /\ events' = <<>>
  /\ UNCHANGED <<authentication, connVars, reqVars, lastBroadcast, statusCalls,
                 ownerVars, micro, rxVars>>

\* ... and unregister in their own "close" handlers.
unregisterStatusCallback(o) ==
  /\ micro = <<>>
  /\ nSockets = 0
  /\ statusCallbacks' = IF o \in Registry(statusCallbacks)
                        THEN Without(statusCallbacks, o) ELSE statusCallbacks
  /\ inChunk' = 0
  /\ events' = <<>>
  /\ UNCHANGED <<authentication, connVars, reqVars, lastBroadcast, statusCalls,
                 ownerVars, micro, rxVars>>

\* ------------------------------------------------------------------- Next
\* Everything the client does once the flow's nodes are constructed.
NextFlow ==
  \/ \E input \in FlowInputs : Send(input)
  \/ \E s \in Sockets : SocketConnect(s)
  \/ \E s \in Sockets : SocketClose(s)
  \/ \E s \in Sockets : SocketEnd(s)
  \/ \E s \in Sockets : SocketTimeout(s)
  \/ \E s \in Sockets : SocketError(s)
  \/ \E s \in Sockets : ConnectionAttemptFailed(s)
  \/ \E s \in Sockets : ConnectionAttemptTimeout(s)
  \/ \E s \in Sockets, f \in Frames : SocketData(s, f)
  \/ \E r \in Requests : RequestTimeout(r)
  \/ \E s \in Sockets : LogonTimeout(s)
  \/ RunMicrotask
  \/ NodeClose

Next ==
  \/ NextFlow
  \/ \E o \in Observers : registerStatusCallback(o, OwnCallback)
  \/ \E o \in Observers : unregisterStatusCallback(o)

Spec == Init /\ [][Next]_vars

\* The registry alone, used with any callback.
NextRegistry ==
  \/ \E o \in Observers, cb \in Callbacks : registerStatusCallback(o, cb)
  \/ \E o \in Observers : unregisterStatusCallback(o)

SpecRegistry == Init /\ [][NextRegistry]_vars

\* The flow after its nodes were constructed: two dependent nodes have
\* registered their status callbacks with the config node.
InitFlow ==
  /\ authentication \in BOOLEAN
  /\ socket = 0
  /\ connectionPromise = 0
  /\ promise = [s \in Sockets |-> [state |-> "none", err |-> NoError]]
  /\ sockState = [s \in Sockets |-> "unused"]
  /\ nSockets = 0
  /\ lastId = 0
  /\ req = [r \in Requests |-> NoRequest]
  /\ logon = [s \in Sockets |-> NoRequest]
  /\ written = [s \in Sockets |-> <<>>]
  /\ statusCallbacks = <<Entry("n1", OwnCallback), Entry("n2", OwnCallback)>>
  /\ lastBroadcast = [status |-> "", socket |-> 0, error |-> NoError, to |-> <<>>]
  /\ statusCalls = [s \in Sockets |-> [Connected |-> 0, Error |-> 0]]
  /\ noOpIntervalId = FALSE
  /\ intervalRunning = FALSE
  /\ nodeClosed = FALSE
  /\ micro = <<>>
  /\ inChunk = 0
  /\ events = <<>>
  /\ stream = <<>>
  /\ rest = <<>>
  /\ emitted = <<>>
  /\ errors = 0

SpecFlow == InitFlow /\ [][NextFlow]_vars

\* Scheduling: a queued promise continuation runs, a started timer fires, a
\* destroyed socket emits "close", and a connecting socket connects or
\* reports the failed attempt.
FairFlow ==
  /\ WF_vars(RunMicrotask)
  /\ \A r \in Requests : WF_vars(RequestTimeout(r))
  /\ \A s \in Sockets : WF_vars(LogonTimeout(s))
  /\ \A s \in Sockets : WF_vars(SocketClose(s))
  /\ \A s \in Sockets :
       WF_vars(SocketConnect(s) \/ ConnectionAttemptFailed(s) \/ ConnectionAttemptTimeout(s))

SpecFlowFair == InitFlow /\ [][NextFlow]_vars /\ FairFlow

\* The flow with observers whose status callback sends on "Connected".
NextObserved ==
  \/ NextFlow
  \/ \E s \in Sockets, input \in FlowInputs : SocketConnectObserved(s, input)
  \/ \E s \in Sockets, input \in FlowInputs : LogonResolvedObserved(s, input)

SpecObserved == InitFlow /\ [][NextObserved]_vars

\* The mixer node's input handler on connections that come up.
NextMixer ==
  \/ \E method \in Methods, payload \in Payloads : MixerInput(method, payload)
  \/ \E s \in Sockets : SocketConnect(s)
  \/ RunMicrotask

SpecMixer == InitFlow /\ [][NextMixer]_vars

\* send called with every kind of input, on connections that come up.
NextSend ==
  \/ \E input \in Inputs : Send(input)
  \/ \E s \in Sockets : SocketConnect(s)
  \/ \E s \in Sockets, f \in Frames : SocketData(s, f)
  \/ RunMicrotask

SpecSend == InitFlow /\ [][NextSend]_vars

\* ------------------------------------------------------------ byte decoder
\* Bytes are the characters of a JSON text, and NUL (0x0).  JSON.parse is
\* computed on the texts built from brackets: {} , [] and [v].
NUL == "NUL"
FrameTexts == {<<"{", "}">>, <<"[", "]">>, <<"[", "{", "}", "]">>}

RECURSIVE JSONparse(_)
JSONparse(text) ==
  IF text = <<"{", "}">> THEN [ok |-> TRUE, value |-> <<"object">>]
  ELSE IF text = <<"[", "]">> THEN [ok |-> TRUE, value |-> <<"array">>]
  ELSE IF Len(text) > 2 /\ text[1] = "[" /\ text[Len(text)] = "]"
  THEN LET inner == JSONparse(SubSeq(text, 2, Len(text) - 1))
       IN IF inner.ok THEN [ok |-> TRUE, value |-> <<"array", inner.value>>]
          ELSE [ok |-> FALSE, value |-> <<>>]
  ELSE [ok |-> FALSE, value |-> <<>>]

\* encapsulate(input): the JSON text followed by one 0x0 byte.
encapsulate(text) == Append(text, NUL)

\* One iteration of receive's loop, on state st = [rx, out, errs].
receiveByte(st, b) ==
  IF b = NUL
  THEN LET obj == JSONparse(st.rx)
       IN IF obj.ok
          THEN [rx |-> <<>>, out |-> Append(st.out, obj.value), errs |-> st.errs]
          ELSE [rx |-> st.rx, out |-> st.out, errs |-> st.errs + 1]
  ELSE [rx |-> Append(st.rx, b), out |-> st.out, errs |-> st.errs]

\* receive(data): rx starts empty on every call.
RECURSIVE receiveLoop(_, _)
receiveLoop(st, data) ==
  IF data = <<>> THEN st ELSE receiveLoop(receiveByte(st, Head(data)), Tail(data))

receive(data) == receiveLoop([rx |-> <<>>, out |-> <<>>, errs |-> 0], data)

RECURSIVE Streams(_)
Streams(n) ==
  IF n = 0 THEN {<<>>}
  ELSE {encapsulate(f) \o s : f \in FrameTexts, s \in Streams(n - 1)}

ValidStreams == UNION {Streams(n) : n \in 1..MaxFrames}

\* Texts JSON.parse rejects, and streams in which such frames occur.
BadTexts == {<<"{">>, <<"]", "[">>}

RECURSIVE AnyStreams(_)
AnyStreams(n) ==
  IF n = 0 THEN {<<>>}
  ELSE {encapsulate(f) \o s : f \in FrameTexts \cup BadTexts, s \in AnyStreams(n - 1)}

StreamsWithBadFrames == UNION {AnyStreams(n) : n \in 1..MaxFrames}

\* A frame of a "data" chunk of socket s whose text JSON.parse rejects: the
\* throw leaves the try block before the switch and the "package" emit; the
\* catch logs err.message.  rx is not reset, so the frames that follow in
\* the same chunk fail as well: the chunk dispatches nothing more.
SocketDataErrorMutDestroys(s, text) ==
  /\ \/ micro = <<>> /\ sockState[s] = "open"
     \/ inChunk = s
  /\ ~JSONparse(text).ok
  /\ events' = <<Event("node.error", <<>>)>>
  /\ inChunk' = 0
  /\ sockState' = closeSocket(sockState, s)
  /\ UNCHANGED <<authentication, socket, connectionPromise, promise, nSockets, reqVars,
                 statusVars, ownerVars, micro, rxVars>>

SocketDataError(s, text) ==
  /\ \/ micro = <<>> /\ sockState[s] = "open"
     \/ inChunk = s
  /\ ~JSONparse(text).ok
  /\ events' = <<Event("node.error", <<>>)>>
  /\ inChunk' = 0
  /\ UNCHANGED <<authentication, connVars, reqVars, statusVars, ownerVars, micro, rxVars>>

\* The flow on a link that also delivers frames JSON.parse rejects.
NextDecode ==
  \/ NextFlow
  \/ \E s \in Sockets, text \in FrameTexts \cup BadTexts : SocketDataError(s, text)

SpecDecode == InitFlow /\ [][NextDecode]_vars


\* Streams in which empty frames occur: a NUL with no frame bytes before it.
RECURSIVE EmptyFrameStreams(_)
EmptyFrameStreams(n) ==
  IF n = 0 THEN {<<>>}
  ELSE {encapsulate(f) \o s : f \in FrameTexts \cup {<<>>}, s \in EmptyFrameStreams(n - 1)}

StreamsWithEmptyFrames == UNION {EmptyFrameStreams(n) : n \in 1..MaxFrames}

InitRxFrom(streams) ==
  /\ authentication = FALSE
  /\ socket = 0
  /\ connectionPromise = 0
  /\ promise = [s \in Sockets |-> [state |-> "none", err |-> NoError]]
  /\ sockState = [s \in Sockets |-> "unused"]
  /\ nSockets = 0
  /\ lastId = 0
  /\ req = [r \in Requests |-> NoRequest]
  /\ logon = [s \in Sockets |-> NoRequest]
  /\ written = [s \in Sockets |-> <<>>]
  /\ statusCallbacks = <<>>
  /\ lastBroadcast = [status |-> "", socket |-> 0, error |-> NoError, to |-> <<>>]
  /\ statusCalls = [s \in Sockets |-> [Connected |-> 0, Error |-> 0]]
  /\ noOpIntervalId = FALSE
  /\ intervalRunning = FALSE
  /\ nodeClosed = FALSE
  /\ micro = <<>>
  /\ inChunk = 0
  /\ events = <<>>
  /\ stream \in streams
  /\ rest = stream
  /\ emitted = <<>>
  /\ errors = 0

InitRx == InitRxFrom(ValidStreams)

InitRxAny == InitRxFrom(StreamsWithBadFrames)

\* socket.on("data", (data) => this.receive(data)) for the next n bytes.
SocketDataBytes(n) ==
  /\ n \in 1..Len(rest)
  /\ LET got == receive(SubSeq(rest, 1, n))
     IN /\ emitted' = emitted \o got.out
        /\ errors' = errors + got.errs
  /\ rest' = SubSeq(rest, n + 1, Len(rest))
  /\ UNCHANGED <<authentication, connVars, reqVars, statusVars, ownerVars, micro,
                 inChunk, events, stream>>

NextRx == \E n \in 1..(4 * MaxFrames + MaxFrames) : SocketDataBytes(n)

SpecRx == InitRx /\ [][NextRx]_vars

SpecRxAny == InitRxAny /\ [][NextRx]_vars

InitRxEmpty == InitRxFrom(StreamsWithEmptyFrames)

SpecRxEmpty == InitRxEmpty /\ [][NextRx]_vars

\* ================================================================== claims
Live(s) == sockState[s] \in {"connecting", "open"}
Pending(r) == r.phase = "pending"
Queued(kind, s) == \E i \in 1..Len(micro) : micro[i] = Task(kind, s)
WroteFrame(r) == r.phase \in {"pending", "resolved", "apiError", "timedout"}
AllSends == {req[r] : r \in Requests} \cup {logon[s] : s \in Sockets}
\* Object f carries the id of a pending send call.
Answers(f) ==
  \/ \E r \in Requests : Pending(req[r]) /\ req[r].id = f.id
  \/ \E k \in Sockets : Pending(logon[k]) /\ logon[k].id = f.id

\* C1: single-flight connect.  While a connection attempt is in flight it is
\* the one recorded attempt (no second transport is opened for it), every
\* send call that found no connection awaits that attempt, and a call that
\* awaited an attempt writes its frame on that attempt's transport, after
\* the attempt resolved.
C1_SingleFlight ==
  /\ \A s \in Sockets : promise[s].state = "pending" => connectionPromise = s
  /\ \A r \in Requests :
       req[r].phase = "awaiting" =>
         /\ req[r].att \in 1..nSockets
         /\ \/ promise[req[r].att].state = "pending"
            \/ Queued("resume", req[r].att)
  /\ \A r, q \in Requests :
       req[r].phase = "awaiting" /\ req[q].phase = "awaiting" => req[r].att = req[q].att
  /\ \A r \in Requests :
       req[r].att # 0 /\ WroteFrame(req[r]) =>
         /\ req[r].sock = req[r].att
         /\ promise[req[r].att].state = "resolved"
         /\ \E i \in 1..Len(written[req[r].att]) :
              written[req[r].att][i] = Message("call", req[r].id, req[r].params)

C1_Witness ==
  /\ nSockets = 1
  /\ \A r \in Requests : Pending(req[r]) /\ req[r].att = 1 /\ req[r].sock = 1
  /\ socket = 1

\* C2: however a valid frame stream is cut into "data" chunks, the decoded
\* objects emitted are those emitted when the stream arrives in one chunk.
C2_ChunkSplitIndependence ==
  rest = <<>> => emitted = receive(stream).out

\* C3: one decoded object settles at most one pending send call, and only
\* one whose id equals the object's id.
C3_OneResponseOneRequest ==
  [][\A s \in Sockets, f \in Frames :
       SocketData(s, f) =>
         LET settled == {r \in Requests : Pending(req[r]) /\ ~Pending(req'[r])}
             settledLogon == {k \in Sockets : Pending(logon[k]) /\ ~Pending(logon'[k])}
         IN /\ Cardinality(settled) + Cardinality(settledLogon) <= 1
            /\ \A r \in settled : req[r].id = f.id
            /\ \A k \in settledLogon : logon[k].id = f.id]_vars

\* C4: a decoded object whose id is null or belongs to no pending request
\* settles no send call, cancels no timer and leaves this.socket and the
\* attempt record alone; when no listener at all carries the id, the
\* listener table is unchanged too.
C4_UnmatchedDropped ==
  [][\A s \in Sockets, f \in Frames :
       (events' # <<>> /\ SocketData(s, f)) =>
         /\ (\A x \in AllSends : Pending(x) => x.id # f.id) =>
              /\ \A r \in Requests : Pending(req[r]) => req'[r] = req[r]
              /\ \A k \in Sockets : Pending(logon[k]) => logon'[k] = logon[k]
              /\ \A r \in Requests : req'[r].timer = req[r].timer
              /\ \A k \in Sockets : logon'[k].timer = logon[k].timer
              /\ socket' = socket
              /\ connectionPromise' = connectionPromise
              /\ promise' = promise
              /\ micro' = micro
         /\ (\A x \in AllSends : x.listener => x.id # f.id) =>
              (req' = req /\ logon' = logon)]_vars

\* An EngineStatus Standby object (id null) was decoded on the active socket
\* while a request was pending there; the request is still pending.
C4_Witness ==
  \E s \in Sockets :
    /\ inChunk = s /\ socket = s /\ sockState[s] = "destroyed"
    /\ \E r \in Requests : Pending(req[r]) /\ req[r].timer /\ req[r].sock = s

\* C5: a request that times out fails with the timeout error and its
\* listener is no longer registered.
C5_TimeoutRemovesEntry ==
  \A x \in AllSends :
    x.phase = "timedout" => (x.err = RequestTimeoutError /\ ~x.listener)

\* C6: when a transport is torn down, every request pending on it is failed
\* in that step and its timer is cancelled.
C6_TeardownRejectsAll ==
  [][\A s \in Sockets :
       (Live(s) /\ ~Live(s)') =>
         \A r \in Requests :
           (Pending(req[r]) /\ req[r].sock = s) =>
             (~Pending(req'[r]) /\ ~req'[r].timer)]_vars

\* C7: with authentication, a failed Logon (error response or timeout) never
\* makes its transport the active connection and no Connected is broadcast
\* for it; the failure rejects the attempt, is broadcast as Error with that
\* error to every registered observer, and rejects every awaiting caller.
LogonFailed(s) == logon[s].phase \in {"apiError", "timedout"}

C7_LogonFailureIsConnectionError ==
  \A s \in Sockets :
    LogonFailed(s) =>
      /\ socket # s
      /\ statusCalls[s].Connected = 0
      /\ promise[s].state \in {"pending", "rejected"}
      /\ promise[s].state = "pending" => (micro # <<>> /\ micro[1] = Task("logon", s))
      /\ promise[s].state = "rejected" =>
           /\ promise[s].err = logon[s].err
           /\ statusCalls[s].Error = 1
           /\ connectionPromise # s
      /\ Queued("resume", s) =>
           lastBroadcast = [status |-> "Error", socket |-> socket,
                            error |-> logon[s].err, to |-> statusCallbacks]
      /\ \A r \in Requests :
           req[r].att = s =>
             \/ req[r].phase = "awaiting" /\ (Queued("logon", s) \/ Queued("resume", s))
             \/ req[r].phase = "connError" /\ req[r].err = logon[s].err

C7_Witness ==
  \E s \in Sockets :
    /\ authentication /\ LogonFailed(s) /\ promise[s].state = "rejected"
    /\ micro = <<>>
    /\ Len(lastBroadcast.to) = 2 /\ lastBroadcast.status = "Error"
    /\ \A r \in Requests : req[r].att = s /\ req[r].phase = "connError"

\* C8: with authentication, until the Logon request has completed without
\* error the transport is not the active connection, no Connected has been
\* broadcast for it, its attempt is unresolved and the only frame written
\* to it is the Logon request.
C8_ReadyOnlyAfterLogon ==
  authentication =>
    \A s \in Sockets :
      logon[s].phase # "resolved" =>
        /\ socket # s
        /\ statusCalls[s].Connected = 0
        /\ promise[s].state # "resolved"
        /\ \A i \in 1..Len(written[s]) : written[s][i].method = "Logon"
        /\ \A r \in Requests : req[r].sock # s

C8_Witness ==
  \E s \in Sockets :
    /\ authentication /\ sockState[s] = "open" /\ Pending(logon[s])
    /\ Len(written[s]) = 1
    /\ \A r \in Requests : req[r].phase = "awaiting" /\ req[r].att = s

\* C9: a client instance never has more than one live transport.
C9_OneLiveTransport ==
  Cardinality({s \in Sockets : Live(s)}) <= 1

\* C10: a close, end or idle-timeout event on a transport whose attempt is
\* still pending rejects the attempt and clears its record.
C10_TeardownRejectsAttempt ==
  [][\A s \in Sockets :
       ((SocketClose(s) \/ SocketEnd(s) \/ SocketTimeout(s)) /\ promise[s].state = "pending") =>
         (promise'[s].state = "rejected" /\ connectionPromise' = 0)]_vars

\* C11: a connectionAttemptFailed or connectionAttemptTimeout event ends the
\* attempt in flight: its transport is destroyed, the attempt is rejected
\* with the connect error and broadcast as Error, the attempt record is
\* cleared with no active connection, every caller that awaited the attempt
\* is rejected with that error when it resumes, and the next send that needs
\* a connection opens a fresh transport.
ConnectErrors == {ConnectFailedError, ConnectTimeoutError}

C11_AttemptFailureIsTerminal ==
  [][/\ \A s \in Sockets :
          (ConnectionAttemptFailed(s) \/ ConnectionAttemptTimeout(s)) =>
            /\ sockState'[s] = "destroyed"
            /\ promise'[s].state = "rejected" /\ promise'[s].err \in ConnectErrors
            /\ connectionPromise' = 0 /\ socket' = 0
            /\ lastBroadcast'.status = "Error" /\ lastBroadcast'.error = promise'[s].err
            /\ \A r \in Requests :
                 (req[r].phase = "awaiting" /\ req[r].att = s) =>
                   (micro' # <<>> /\ micro'[Len(micro')] = Task("resume", s))
     /\ \A s \in Sockets, r \in Requests :
          (RunMicrotask /\ micro[1] = Task("resume", s) /\ promise[s].err \in ConnectErrors
             /\ req[r].phase = "awaiting" /\ req[r].att = s) =>
            (req'[r].phase = "connError" /\ req'[r].err = promise[s].err)
     /\ \A input \in FlowInputs :
          (Send(input) /\ nSockets > 0 /\ promise[nSockets].err \in ConnectErrors) =>
            /\ nSockets' = nSockets + 1
            /\ sockState'[nSockets'] = "connecting"
            /\ connectionPromise' = nSockets'
            /\ req'[NextRequest].att = nSockets']_vars

C11_Witness ==
  /\ nSockets = 2
  /\ promise[1] = [state |-> "rejected", err |-> ConnectFailedError]
  /\ sockState[1] = "destroyed"
  /\ req[1].phase = "connError" /\ req[1].err = ConnectFailedError
  /\ req[2].phase = "awaiting" /\ req[2].att = 2
  /\ sockState[2] = "connecting"

\* C12: when an EngineStatus notification with State "Standby" is decoded
\* from a transport, that transport is destroyed, whether the client is
\* Ready or still authenticating.
C12_StandbyTearsDown ==
  [][\A s \in Sockets, f \in EngineStatusFrames :
       (SocketData(s, f) /\ f.State = "Standby") => sockState'[s] # "open"]_vars

\* C13: an EngineStatus "Active" notification emits exactly one "ready" event
\* and changes nothing else (no transport is destroyed, this.socket, the
\* attempt record and every send call stay as they are); an "Idle" one
\* emits no "ready" event and closes nothing.
ReadyCount(evs) == Cardinality({i \in 1..Len(evs) : evs[i].event = "ready"})

C13_ActiveSignalsReadyOnly ==
  [][\A s \in Sockets, f \in EngineStatusFrames :
       (f.State \in {"Active", "Idle"} /\ SocketData(s, f)) =>
         /\ ReadyCount(events') = (IF f.State = "Active" THEN 1 ELSE 0)
         /\ UNCHANGED <<connVars, reqVars, statusVars, micro>>]_vars

C13_Witness ==
  /\ ReadyCount(events) = 1
  /\ socket # 0 /\ sockState[socket] = "open"
  /\ \E r \in Requests : Pending(req[r]) /\ req[r].timer

\* C14: a ChangeGroup.Poll frame whose change list has k items makes receive
\* emit exactly k "rx" events, the i-th carrying the i-th item, all before
\* the "package" event that offers the frame to the send listeners; an
\* empty list emits no "rx" event.
C14_ChangeEventsInOrder ==
  [][\A s \in Sockets, f \in ChangeGroupPollFrames :
       SocketData(s, f) =>
         LET k == Len(f.Changes)
         IN /\ Len(events') = k + 1
            /\ \A i \in 1..k : events'[i] = Event("rx", <<f.Changes[i]>>)
            /\ events'[k + 1].event = "package"]_vars

C14_Witness ==
  /\ Len(events) = MaxChanges + 1
  /\ events[1] = Event("rx", <<Items[1]>>)
  /\ events[MaxChanges] = Event("rx", <<Items[MaxChanges]>>)
  /\ events[MaxChanges + 1].event = "package"

\* C15: a response that carries an error and whose id is that of a pending
\* send call fails that call with a QSysApiError holding the response's
\* code and message, removes its listener and clears its timer; the error's
\* hint is the fixed text of the code ("Unknown component name" for 7,
\* "Unknown Error" for a code outside the table).
C15_ErrorResponseFails ==
  [][\A s \in Sockets, f \in ResponseFrames :
       (f.error # <<>> /\ Answers(f) /\ SocketData(s, f)) =>
         /\ \A r \in Requests :
              (Pending(req[r]) /\ req[r].id = f.id) =>
                /\ req'[r].phase = "apiError"
                /\ req'[r].err = QSysApiError(f.error[1].code, f.error[1].message)
                /\ ~req'[r].listener /\ ~req'[r].timer
         /\ \A k \in Sockets :
              (Pending(logon[k]) /\ logon[k].id = f.id) =>
                /\ logon'[k].phase = "apiError"
                /\ logon'[k].err = QSysApiError(f.error[1].code, f.error[1].message)
                /\ ~logon'[k].listener /\ ~logon'[k].timer
         /\ f.error[1].code = 7 => hint(f.error[1].code) = "Unknown component name"
         /\ f.error[1].code \notin KnownCodes => hint(f.error[1].code) = "Unknown Error"]_vars

C15_Witness ==
  \E r, q \in Requests :
    /\ req[r].phase = "apiError" /\ req[r].err.code = 7
    /\ req[q].phase = "apiError" /\ req[q].err.code \notin KnownCodes
    /\ hint(req[q].err.code) = "Unknown Error"
    /\ req[q].err.message \in Messages

\* C16: a send call whose connection attempt was rejected is rejected with
\* the attempt's error; it writes no frame, registers no listener and starts
\* no timer.
C16_FailedConnectLeavesNoTrace ==
  [][\A r \in Requests :
       (req[r].phase = "awaiting" /\ req'[r].phase # "awaiting"
          /\ promise[req[r].att].state = "rejected") =>
         /\ req'[r].phase = "connError"
         /\ req'[r].err = promise[req[r].att].err
         /\ ~req'[r].listener /\ ~req'[r].timer /\ req'[r].sock = 0
         /\ written' = written]_vars

C16_Witness ==
  /\ \A r \in Requests : req[r].phase = "connError" /\ req[r].err = ConnectTimeoutError
  /\ \A s \in Sockets : written[s] = <<>>
  /\ micro = <<>>

\* C17: with pending send calls of distinct ids, a response settles the call
\* that carries its id, with that response's outcome, and no other call,
\* whatever the order in which the calls were made.
DistinctPendingIds ==
  /\ \A r, q \in Requests : (r # q /\ Pending(req[r]) /\ Pending(req[q])) => req[r].id # req[q].id
  /\ \A r \in Requests, k \in Sockets : (Pending(req[r]) /\ Pending(logon[k])) => req[r].id # logon[k].id

C17_MatchedById ==
  [][\A s \in Sockets, f \in Frames :
       (Answers(f) /\ DistinctPendingIds /\ SocketData(s, f)) =>
         \A r \in Requests :
           Pending(req[r]) =>
             IF req[r].id = f.id
             THEN req'[r].phase = (IF f.error # <<>> THEN "apiError" ELSE "resolved")
             ELSE req'[r] = req[r]]_vars

\* The later of two pending calls was answered first.
C17_Witness ==
  /\ Pending(req[1]) /\ req[2].phase = "resolved"
  /\ req[1].sock = req[2].sock /\ req[1].id < req[2].id

\* C18: a request timeout, or an error response for a request, fails only
\* that send call: no transport is destroyed, this.socket and the attempt
\* are unchanged, every other pending call stays pending with its timer and
\* no status observer is called.
C18_RequestFailureIsLocal ==
  [][/\ \A r \in Requests :
          RequestTimeout(r) =>
            /\ UNCHANGED <<connVars, logon, statusVars>>
            /\ \A q \in Requests \ {r} : req'[q] = req[q]
     /\ \A s \in Sockets, f \in ResponseFrames, r \in Requests :
          (SocketData(s, f) /\ f.error # <<>> /\ Pending(req[r]) /\ req[r].id = f.id) =>
            /\ UNCHANGED <<connVars, logon, statusVars>>
            /\ \A q \in Requests \ {r} : Pending(req[q]) => req'[q] = req[q]]_vars

\* C19: every event that ends the attempt in flight or the active connection
\* (connect failed, connect timed out, close, end, idle timeout, failed
\* Logon) calls every registered observer with status Error or Inactive.
C19_ConnectionErrorsReachObservers ==
  [][\A s \in Sockets :
       ((socket = s \/ connectionPromise = s)
          /\ \/ ConnectionAttemptFailed(s) \/ ConnectionAttemptTimeout(s)
             \/ SocketClose(s) \/ SocketEnd(s) \/ SocketTimeout(s)
             \/ (RunMicrotask /\ micro[1] = Task("logon", s) /\ LogonFailed(s))) =>
         /\ statusCalls'[s].Error = statusCalls[s].Error + 1
         /\ lastBroadcast'.status \in {"Error", "Inactive"}
         /\ lastBroadcast'.to = statusCallbacks]_vars

\* C20: an updateStatus call invokes each registered observer once, in
\* registration order, with this.socket as it is at the call, the status
\* and the error; an observer that unregistered is not in the registry and
\* is not invoked.
NoDuplicates(q) == \A i, j \in 1..Len(q) : q[i] = q[j] => i = j

C20_BroadcastToRegistry ==
  [][/\ (lastBroadcast' # lastBroadcast \/ statusCalls' # statusCalls) =>
          /\ lastBroadcast'.to = statusCallbacks
          /\ NoDuplicates(lastBroadcast'.to)
          /\ lastBroadcast'.socket = socket'
          /\ lastBroadcast'.status \in {"Connected", "Error"}
          /\ (lastBroadcast'.status = "Connected") = (lastBroadcast'.error = NoError)
     /\ \A o \in Observers :
          unregisterStatusCallback(o) =>
            /\ o \notin Registry(statusCallbacks')
            /\ \A i, j \in 1..Len(statusCallbacks') :
                 i < j => \E a, b \in 1..Len(statusCallbacks) :
                            a < b /\ statusCallbacks[a] = statusCallbacks'[i]
                                  /\ statusCallbacks[b] = statusCallbacks'[j]
     /\ \A o \in Observers :
          registerStatusCallback(o, OwnCallback) =>
            statusCallbacks' = (IF \E i \in 1..Len(statusCallbacks) : statusCallbacks[i].nodeId = o
                                THEN statusCallbacks
                                ELSE statusCallbacks \o <<Entry(o, OwnCallback)>>)]_vars

\* n1 registered, unregistered and registered again after n2: the
\* successful connect was broadcast to n2, then n1.
C20_Witness ==
  /\ lastBroadcast.status = "Connected"
  /\ lastBroadcast.to = <<Entry("n2", OwnCallback), Entry("n1", OwnCallback)>>
  /\ lastBroadcast.socket = socket /\ socket # 0

\* C21: registering a node id that is registered leaves the registry as it
\* is (the entry keeps its callback and its position), registering an absent
\* one appends it, unregistering an absent node id leaves the registry as
\* it is, unregistering a registered one removes just that entry, and the
\* registry never holds two entries of one node id.
C21_RegistryIdempotent ==
  [][/\ \A o \in Observers, cb \in Callbacks :
          registerStatusCallback(o, cb) =>
            statusCallbacks' = (IF o \in Registry(statusCallbacks)
                                THEN statusCallbacks
                                ELSE statusCallbacks \o <<Entry(o, cb)>>)
     /\ \A o \in Observers :
          unregisterStatusCallback(o) =>
            /\ o \notin Registry(statusCallbacks) => statusCallbacks' = statusCallbacks
            /\ o \notin Registry(statusCallbacks')
            /\ Len(statusCallbacks') >= Len(statusCallbacks) - 1
            /\ \A i \in 1..Len(statusCallbacks) :
                 statusCallbacks[i].nodeId # o =>
                   \E j \in 1..Len(statusCallbacks') : statusCallbacks'[j] = statusCallbacks[i]
     /\ \A i, j \in 1..Len(statusCallbacks') :
          statusCallbacks'[i].nodeId = statusCallbacks'[j].nodeId => i = j]_vars

\* Both nodes are registered, n1 after n2 and with the second closure:
\* registering either again, with any closure, is the case of the claim.
C21_Witness ==
  statusCallbacks = <<Entry("n2", 1), Entry("n1", 2)>>

\* C22: every frame send writes carries jsonrpc "2.0", the caller's params
\* or, when the caller gave none, the literal 0, and the caller's id (0
\* included) or, when the caller gave none, the id reserveId() returns.
NewFrames(s) == SubSeq(written'[s], Len(written[s]) + 1, Len(written'[s]))

C22_FrameStamped ==
  [][/\ \A input \in Inputs :
          Send(input) =>
            LET r == NextRequest
                id == IF input.id = NullId THEN lastId ELSE input.id
                params == IF input.params = Undefined THEN ParamsZero ELSE input.params
            IN /\ req'[r].id = id /\ req'[r].params = params
               /\ (input.id = NullId) = (lastId' = lastId + 1)
               /\ socket # 0 =>
                    NewFrames(socket) =
                      <<[jsonrpc |-> "2.0", method |-> "call", id |-> id, params |-> params]>>
     /\ \A s \in Sockets :
          \A i \in 1..Len(NewFrames(s)) :
            LET w == NewFrames(s)[i]
            IN /\ w.jsonrpc = "2.0"
               /\ w.params # Undefined
               /\ w.id # NullId
               /\ \/ w.method = "Logon" /\ logon'[s].id = w.id
                  \/ \E r \in Requests :
                       /\ req[r].phase \in {"new", "awaiting"} /\ req'[r].phase = "pending"
                       /\ req'[r].sock = s /\ req'[r].id = w.id /\ req'[r].params = w.params
                       /\ req[r].phase = "awaiting" =>
                            (req[r].id = w.id /\ req[r].params = w.params)]_vars

\* Two calls were written to one socket: one made with id 0 and no params,
\* one made without id (it got a reserved id) and with a params object.
C22_Witness ==
  \E s \in Sockets :
    /\ Len(written[s]) >= 2
    /\ \E i, j \in 1..Len(written[s]) :
         /\ written[s][i].method = "call" /\ written[s][i].id > 0
         /\ written[s][i].params \in ParamsObjects
         /\ written[s][j] = [jsonrpc |-> "2.0", method |-> "call", id |-> 0, params |-> ParamsZero]

\* C23: no two send calls that are pending at the same time carry the same
\* id, and an id reserveId() returned is below every id it returns later.
C23_IdsNotReused ==
  /\ \A r, q \in Requests :
       (r # q /\ Pending(req[r]) /\ Pending(req[q])) => req[r].id # req[q].id
  /\ \A r \in Requests, k \in Sockets :
       (Pending(req[r]) /\ Pending(logon[k])) => req[r].id # logon[k].id
  /\ \A k \in Sockets : logon[k].phase # "new" => logon[k].id < lastId

\* C24: a chunk made of whole frames emits the objects of its well-formed
\* frames, in order, whatever malformed frames stand between them.
RECURSIVE GoodObjects(_, _)
GoodObjects(data, text) ==
  IF data = <<>> THEN <<>>
  ELSE IF Head(data) = NUL
  THEN (IF JSONparse(text).ok THEN <<JSONparse(text).value>> ELSE <<>>)
         \o GoodObjects(Tail(data), <<>>)
  ELSE GoodObjects(Tail(data), Append(text, Head(data)))

AtFrameStart == rest = stream \/ stream[Len(stream) - Len(rest)] = NUL

C24_BadFrameSkipped ==
  [][\A n \in 1..(4 * MaxFrames + MaxFrames) :
       (SocketDataBytes(n) /\ AtFrameStart /\ rest[n] = NUL) =>
         emitted' = emitted \o GoodObjects(SubSeq(rest, 1, n), <<>>)]_vars

\* C25: the owner's close event destroys every transport opened so far that
\* is not yet destroyed, touches no transport that was not opened, and stops
\* the keep-alive timer.
C25_ShutdownDestroysAll ==
  [][NodeClose =>
       /\ \A s \in Sockets :
            /\ ~Live(s)'
            /\ Live(s) => sockState'[s] = "destroyed"
            /\ ~Live(s) => sockState'[s] = sockState[s]
       /\ ~intervalRunning'
       /\ nSockets' = nSockets]_vars

\* The owner closed while two transports were open: both are destroyed.
C25_Witness ==
  /\ nodeClosed /\ ~intervalRunning
  /\ nSockets = 2 /\ socket = 2
  /\ \A s \in Sockets : sockState[s] = "destroyed" /\ Len(written[s]) > 0

\* C26: the keep-alive timer does not run while the client, after a
\* teardown, has neither a connection nor an attempt in flight.
C26_KeepAliveCancelled ==
  (nSockets > 0 /\ socket = 0 /\ connectionPromise = 0) => ~intervalRunning

\* C27: every send call that was made eventually settles: it resolves with
\* a response or is rejected with an error.
Settled(r) == r.phase \in {"resolved", "apiError", "timedout", "connError"}

C27_EverySendSettles ==
  \A r \in Requests : (req[r].phase \in {"awaiting", "pending"}) ~> Settled(req[r])

\* C28: when the close, end or idle-timeout event of the active transport
\* has been handled, this.socket is cleared and no attempt is recorded; the
\* next send opens one new transport without writing anything, and the
\* calls that awaited an attempt are written, once it resolved, to that
\* attempt's transport and to no other.
C28_ReconnectOnDemand ==
  [][/\ \A s \in Sockets :
          ((SocketClose(s) \/ SocketEnd(s) \/ SocketTimeout(s)) /\ socket = s) =>
            (socket' = 0 /\ connectionPromise' = 0 /\ ~Live(s)')
     /\ \A input \in FlowInputs :
          (Send(input) /\ socket = 0 /\ nSockets > 0 /\ statusCalls[nSockets].Connected > 0) =>
            /\ nSockets' = nSockets + 1
            /\ sockState'[nSockets'] = "connecting"
            /\ \A s \in 1..nSockets : sockState'[s] = sockState[s]
            /\ req'[NextRequest].phase = "awaiting" /\ req'[NextRequest].att = nSockets'
            /\ written' = written
     /\ \A r \in Requests :
          (req[r].phase = "awaiting" /\ req'[r].phase = "pending") =>
            /\ req'[r].sock = req[r].att
            /\ promise[req[r].att].state = "resolved" /\ socket' = req[r].att
            /\ \A s \in Sockets \ {req[r].att} : written'[s] = written[s]]_vars

\* The first transport was Ready and was closed; the second call went out
\* on the second transport only.
C28_Witness ==
  /\ nSockets = 2 /\ socket = 2 /\ sockState[2] = "open"
  /\ statusCalls[1].Connected = 1 /\ sockState[1] = "closed"
  /\ Pending(req[2]) /\ req[2].att = 2 /\ req[2].sock = 2
  /\ Len(written[1]) = 1 /\ written[1][1].id = req[1].id

\* C29: once the client itself has destroyed a transport (on a Standby
\* notification, in the end or timeout handler, at owner shutdown),
\* this.socket, the transport a later send writes to, does not denote it.
C29_NoWriteToDestroyed ==
  [][\A s \in Sockets :
       (Live(s) /\ ~Live(s)'
          /\ \/ NodeClose \/ SocketEnd(s) \/ SocketTimeout(s)
             \/ \E k \in Sockets, f \in EngineStatusFrames : StandbyCloses(f) /\ SocketData(k, f)) =>
         socket' # s]_vars

\* C30: when the Logon of a transport has failed, that transport is
\* destroyed and the attempt record is cleared.
C30_LogonFailureDisconnects ==
  [][\A s \in Sockets :
       (RunMicrotask /\ micro[1] = Task("logon", s) /\ LogonFailed(s)) =>
         (~Live(s)' /\ connectionPromise' = 0)]_vars

\* C31: with authentication disabled the "connect" event alone makes the
\* connection Ready, no EngineStatus frame being needed: in that one step the
\* socket becomes this.socket, the attempt record is cleared, Connected is
\* broadcast to every registered observer with that socket, and the
\* attempt's promise is resolved, which resumes the awaiting send calls.
C31_ConnectAloneIsReady ==
  [][\A s \in Sockets :
       (~authentication /\ SocketConnect(s)) =>
         /\ socket' = s
         /\ connectionPromise' = 0
         /\ lastBroadcast' = [status |-> "Connected", socket |-> s, error |-> NoError,
                              to |-> statusCallbacks]
         /\ promise'[s] = [state |-> "resolved", err |-> NoError]
         /\ micro' = <<Task("resume", s)>>
         /\ events' = <<>>]_vars

C31_Witness ==
  /\ ~authentication
  /\ socket = 1 /\ sockState[1] = "open" /\ connectionPromise = 0
  /\ lastBroadcast.status = "Connected" /\ Len(lastBroadcast.to) = 2
  /\ micro = <<Task("resume", 1)>>
  /\ \A r \in Requests : req[r].phase = "awaiting" /\ req[r].att = 1
  /\ written[1] = <<>>

\* The frames of send calls of the dependent nodes in a socket's output.
CallFrames(w) ==
  LET IsCall(m) == m.method = "call"
  IN SelectSeq(w, IsCall)

\* The frames of the send calls that wrote on socket s, in call order.
SentOn(s) ==
  LET RECURSIVE From(_)
      From(k) == IF k > MaxReq THEN <<>>
                 ELSE (IF WroteFrame(req[k]) /\ req[k].sock = s
                       THEN <<Message("call", req[k].id, req[k].params)>> ELSE <<>>) \o From(k + 1)
  IN From(1)

\* C32: frames are written in the order of the send calls: the frames of the
\* nodes' send calls that a socket was given are, in writing order, the
\* frames of those calls in calling order, whether a call found the
\* connection Ready, awaited the attempt, or was made inside a status
\* callback.
C32_WriteOrder ==
  \A s \in Sockets : CallFrames(written[s]) = SentOn(s)

\* C33: a "close", "end" or "timeout" event of socket s destroys s and no
\* other socket; this.socket is cleared when it is s and is left as it is
\* when it is another socket (s was superseded, or its attempt failed).
C33_TeardownOfInactive ==
  [][\A s \in Sockets :
       (SocketClose(s) \/ SocketEnd(s) \/ SocketTimeout(s)) =>
         /\ ~Live(s)'
         /\ \A k \in Sockets \ {s} : sockState'[k] = sockState[k]
         /\ socket' = IF socket = s THEN 0 ELSE socket]_vars

\* Socket 1 failed its Logon and was never this.socket; it has been torn
\* down and closed while socket 2 is the connection.
C33_Witness ==
  /\ socket = 2 /\ sockState[2] = "open"
  /\ logon[1].phase = "apiError" /\ statusCalls[1].Connected = 0
  /\ sockState[1] = "closed"

\* The events of socket s that call that attempt's handleResolve / handleReject.
OwnEvent(s) ==
  \/ SocketConnect(s)
  \/ ConnectionAttemptFailed(s)
  \/ ConnectionAttemptTimeout(s)
  \/ RunMicrotask /\ micro[1] = Task("logon", s)

InFlight == {s \in Sockets : promise[s].state = "pending"}

\* C34: an attempt's record is settled and cleared only by that attempt's own
\* events: a step that settles the promise of attempt s, or that clears or
\* replaces the recorded attempt s, is an event of socket s settling its own
\* pending attempt; and at most one attempt is in flight.
C34_AttemptSettledByOwner ==
  [][/\ \A s \in Sockets :
          (promise[s].state = "pending" /\ promise'[s] # promise[s]) =>
            (connectionPromise = s /\ connectionPromise' = 0 /\ OwnEvent(s))
     /\ (connectionPromise # 0 /\ connectionPromise' # connectionPromise) =>
          /\ promise[connectionPromise].state = "pending"
          /\ promise'[connectionPromise].state \in {"resolved", "rejected"}
          /\ OwnEvent(connectionPromise)
     /\ Cardinality(InFlight) <= 1
     /\ Cardinality(InFlight') <= 1]_vars

\* Attempt 2 is in flight, its socket still connecting, and the last step
\* was a frame on socket 1, whose Logon had timed out: the late answer took
\* the Logon listener away and left attempt 2 alone.
C34_Witness ==
  /\ connectionPromise = 2 /\ promise[2].state = "pending" /\ sockState[2] = "connecting"
  /\ events # <<>>
  /\ logon[1].phase = "timedout" /\ ~logon[1].listener
  /\ promise[1].state = "rejected"

C36_DecodeErrorIsLocal ==
  [][\A s \in Sockets, text \in FrameTexts \cup BadTexts :
       SocketDataError(s, text) =>
         /\ events' = <<Event("node.error", <<>>)>>
         /\ sockState' = sockState
         /\ socket' = socket /\ connectionPromise' = connectionPromise /\ promise' = promise
         /\ req' = req /\ logon' = logon
         /\ written' = written /\ lastBroadcast' = lastBroadcast
         /\ micro' = micro]_vars

\* A malformed frame was logged on the active connection while both send
\* calls wait for their answers.
C36_Witness ==
  /\ events = <<Event("node.error", <<>>)>>
  /\ socket = 1 /\ sockState[1] = "open"
  /\ \A r \in Requests : Pending(req[r]) /\ req[r].timer /\ req[r].listener /\ req[r].sock = 1

\* The byte stream without its empty frames.
RECURSIVE WithoutEmptyFrames(_, _)
WithoutEmptyFrames(data, atStart) ==
  IF data = <<>> THEN <<>>
  ELSE IF Head(data) = NUL /\ atStart THEN WithoutEmptyFrames(Tail(data), TRUE)
  ELSE <<Head(data)>> \o WithoutEmptyFrames(Tail(data), Head(data) = NUL)

\* C37: empty frames are ignored: a stream delivered in one chunk emits the
\* objects it emits with its empty frames taken out, and an empty frame logs
\* no decode error.
C37_EmptyFramesIgnored ==
  [][(rest = stream /\ rest' = <<>>) =>
       /\ emitted' = receive(WithoutEmptyFrames(stream, TRUE)).out
       /\ errors' = receive(WithoutEmptyFrames(stream, TRUE)).errs]_vars

\* A number, or a string that is a decimal numeral.
IsNumeric(payload) ==
  \/ payload.type = "number" /\ ~payload.nan
  \/ /\ payload.type = "string"
     /\ LET signed == payload.str # <<>> /\ Head(payload.str) \in {"-", "+"}
            body == IF signed THEN Tail(payload.str) ELSE payload.str
        IN body # <<>> /\ LeadingDigits(body) = body

\* Neither a number (NaN included) nor a string that starts like a numeral.
IsNotNumeric(payload) ==
  \/ payload.type \in {"undefined", "object", "boolean"}
  \/ payload.type = "string" /\ parseInt(payload.str).nan

SendsOf(method) == <<Event("send", <<"Mixer", method>>), Event("done", <<>>)>>
NewRequests == {r \in Requests : req[r].phase = "new" /\ req'[r].phase # "new"}
Warned == Len(events') = 2 /\ events'[1].event = "node.warn" /\ events'[2] = Event("done", <<>>)

\* C38: the mixer node sends exactly the well-typed commands: a numeric
\* method with a numeric payload, or a boolean method with a boolean
\* payload, makes one send of Mixer.<method>; a numeric method with a payload
\* that is not numeric, or an unsupported method, makes a warning and no
\* send; done is called once in every case.
C38_MixerValidation ==
  [][\A method \in Methods, payload \in Payloads :
       MixerInput(method, payload) =>
         /\ (method \in NumericMethods /\ IsNumeric(payload)) =>
              (events' = SendsOf(method) /\ Cardinality(NewRequests) = 1)
         /\ (method \in NumericMethods /\ IsNotNumeric(payload)) =>
              (Warned /\ NewRequests = {} /\ written' = written)
         /\ (method \in BooleanMethods /\ payload.type = "boolean") =>
              (events' = SendsOf(method) /\ Cardinality(NewRequests) = 1)
         /\ (method \notin NumericMethods \cup BooleanMethods) =>
              (Warned /\ NewRequests = {} /\ written' = written)
         /\ Len(SelectSeq(events', LAMBDA ev : ev.event = "done")) = 1]_vars

====
